---- MODULE Spec2Model ----
(***************************************************************************)
(* Model of download_dryad_dataset.py: one run of main() as a sequential   *)
(* state machine (argument parsing, mkdir, metadata GET, streamed GET,     *)
(* SHA-256 of the local file, comparison), with the network, the JSON      *)
(* body and the file system as nondeterministic environment.              *)
(*                                                                         *)
(* Strings are sequences of one-character strings.  Bytes are 0 and 1.     *)
(***************************************************************************)
EXTENDS Integers, Sequences, FiniteSets, TLC

VARIABLES
    pc,         \* position of main(): the next statement to run
    arg,        \* args.fid, the command-line string
    fid,        \* result of extract_file_id(args.fid)
    outdir,     \* what is at the output path: "absent", "dir" or "file"
    meta,       \* parsed JSON body of the metadata response (a function on its keys)
    filename,   \* meta["path"]
    expected,   \* meta["digest"]
    size,       \* meta["size"]
    fs,         \* the files under outdir: filename -> content, or NoFile
    r_open,     \* the streamed response r of download() is open
    fh_open,    \* the write handle fh of download() is open
    rd_open,    \* the read handle f of sha256sum() is open
    received,   \* the bytes iter_content has yielded so far
    nchunks,    \* how many chunks iter_content has yielded
    bar,        \* tqdm progress counter
    h,          \* the running hash state of sha256sum()
    pos,        \* the read position of sha256sum()
    actual,     \* the digest sha256sum() returned
    exitCode,   \* process exit status, Running until the process ends
    failure,    \* which statement ended the run ("none" while running or on success)
    metaGets,   \* number of metadata GET requests issued
    requested,  \* the download GET request has been issued
    opened,     \* dest.open('wb') has been called in this run
    unlinked,   \* target.unlink() has been called
    created     \* mkdir has created the output directory in this run

vars == <<pc, arg, fid, outdir, meta, filename, expected, size, fs, r_open,
          fh_open, rd_open, received, nchunks, bar, h, pos, actual, exitCode,
          failure, metaGets, requested, opened, unlinked, created>>

\* ------------------------------------------------------------------ bounds
MaxTokens == 4      \* an argument string is at most this many tokens long
MaxChunks == 2      \* iter_content yields at most this many chunks
CHUNK == 2          \* chunk size in bytes (1 MiB in the source, scaled down)

\* ----------------------------------------------------------------- strings
Digits == {"0", "1", "2", "3", "4", "5", "6", "7", "8", "9"}
Whitespace == {" ", "\t", "\n"}
FilesPrefix == <<"/", "f", "i", "l", "e", "s", "/">>

\* The regular expression /files/(\d+) matches at position i.
MatchAt(s, i) ==
    /\ i + Len(FilesPrefix) <= Len(s)
    /\ SubSeq(s, i, i + Len(FilesPrefix) - 1) = FilesPrefix
    /\ s[i + Len(FilesPrefix)] \in Digits

\* a non-greedy \d+? would stop after the first digit
DigitRunEnd_lazy(s, j) == j

\* \d+ is greedy: the last index of the digit run that starts at j.
RECURSIVE DigitRunEnd(_, _)
DigitRunEnd(s, j) ==
    IF j + 1 <= Len(s) /\ s[j + 1] \in Digits THEN DigitRunEnd(s, j + 1) ELSE j

\* re.search scans left to right and returns the first match.
RECURSIVE SearchFrom(_, _)
SearchFrom(s, i) ==
    IF i > Len(s) THEN 0
    ELSE IF MatchAt(s, i) THEN i
    ELSE SearchFrom(s, i + 1)

re_search(s) == SearchFrom(s, 1)

RECURSIVE lstrip(_)
lstrip(s) ==
    IF s # <<>> /\ Head(s) \in Whitespace THEN lstrip(Tail(s)) ELSE s

RECURSIVE rstrip(_)
rstrip(s) ==
    IF s # <<>> /\ s[Len(s)] \in Whitespace
    THEN rstrip(SubSeq(s, 1, Len(s) - 1)) ELSE s

\* only the leading whitespace removed
strip_left(s) == lstrip(s)

strip(s) == rstrip(lstrip(s))

\* m.group(1) of a match at position i
group1(s, i) ==
    SubSeq(s, i + Len(FilesPrefix), DigitRunEnd(s, i + Len(FilesPrefix)))

extract_file_id(s) ==
    LET m == re_search(s)
    IN  IF m # 0 THEN group1(s, m) ELSE strip(s)

\* ----------------------------------------------------- argument strings
Tok12345 == <<"1", "2", "3", "4", "5">>
Tokens == { FilesPrefix, Tok12345, <<"6">>, <<" ">>, <<"\t">>, <<"x">>,
            <<"/", "f", "i", "l", "e", "s">> }

RECURSIVE Flatten(_)
Flatten(ts) == IF ts = <<>> THEN <<>> ELSE Head(ts) \o Flatten(Tail(ts))

TokenSeqs == UNION { [1..n -> Tokens] : n \in 0..MaxTokens }
ArgStrings == { Flatten(ts) : ts \in TokenSeqs }


\* -------------------------------------------------------------- digests
HexChars == <<"0", "1", "2", "3", "4", "5", "6", "7", "8", "9",
              "a", "b", "c", "d", "e", "f">>

\* str.lower() on one character (the letters that occur in digests)
lower_char(c) ==
    CASE c = "A" -> "a" [] c = "B" -> "b" [] c = "C" -> "c"
      [] c = "D" -> "d" [] c = "E" -> "e" [] c = "F" -> "f"
      [] OTHER -> c

\* a comparison that keeps the case
lower_identity(s) == s

lower(s) == [i \in 1..Len(s) |-> lower_char(s[i])]

\* hashlib.sha256(): the hash is abstracted to a one-byte running state,
\* folded over the bytes in order; hexdigest() is its two lowercase hex chars.
sha256_new == 10 * 16 + 11

RECURSIVE sha256_update(_, _)
sha256_update(hv, chunk) ==
    IF chunk = <<>> THEN hv
    ELSE sha256_update((hv * 31 + Head(chunk) + 1) % (16 * 16), Tail(chunk))

hexdigest(hv) == <<HexChars[(hv \div 16) + 1], HexChars[(hv % 16) + 1]>>

\* line 75: actual.lower() != expected.lower()
digests_differ(act, exp) == lower(act) # lower(exp)

\* ---------------------------------------------------------- environment
Running == 0 - 1
Bytes == {0, 1}
Chunks == UNION { [1..n -> Bytes] : n \in 0..CHUNK }   \* iter_content(CHUNK)
Filenames == {"data.csv", "b.bin"}
Sizes == {2}
Digests == { <<"a", "b">>, <<"A", "B">>, <<"A", "b">>, <<"b", "6">>,
             <<"B", "7">>, <<"a">> }
MetaKeys == {"path", "digest", "size", "href"}
OldData == <<1, 1, 1>>
NoFile == [exists |-> FALSE, data |-> <<>>]
NoMeta == [k \in {} |-> ""]

\* the JSON bodies the metadata endpoint may answer with
FullMeta(p, d, n) ==
    [k \in MetaKeys |->
        CASE k = "path" -> [str |-> p, hex |-> <<>>, num |-> 0]
          [] k = "digest" -> [str |-> "", hex |-> d, num |-> 0]
          [] k = "size" -> [str |-> "", hex |-> <<>>, num |-> n]
          [] OTHER -> [str |-> "/downloads/xyz", hex |-> <<>>, num |-> 0]]

Without(m, k) == [j \in (DOMAIN m) \ {k} |-> m[j]]

MetaBodies ==
    { FullMeta(p, d, n) : p \in Filenames, d \in Digests, n \in Sizes }
    \cup { Without(FullMeta("data.csv", <<"a", "b">>, 2), k) : k \in MetaKeys }

\* the argument strings of the runs of main()
MainArgs == { <<" ", "7", "\t">>, FilesPrefix \o <<"7">> }

\* an exit that always reports success
sys_exit_zero(message) == IF message THEN 0 ELSE 0

\* sys.exit(arg): a message makes the status 1, no argument makes it 0;
\* an uncaught exception ends the process like a message does.
sys_exit(message) == IF message THEN 1 ELSE 0

\* only the first subscript checked
KeyError_path_only(m) == "path" \notin DOMAIN m

\* a subscript meta[k] raises KeyError when the key is missing
KeyError(m) == \E k \in MetaKeys : k \notin DOMAIN m

Field(m, k) ==
    IF k \in DOMAIN m THEN m[k] ELSE [str |-> "", hex |-> <<>>, num |-> 0]

\* a write that does not advance the file position
fh_write_overwrite(data, chunk) == chunk

\* fh.write(chunk)
fh_write(data, chunk) == data \o chunk

\* the deletion left out
unlink_keep(f, p) == f

\* target.unlink(missing_ok=True)
unlink(f, p) == [f EXCEPT ![p] = NoFile]

\* dest.open('wb') creates or truncates
open_wb(f, p) == [f EXCEPT ![p] = [exists |-> TRUE, data |-> <<>>]]

\* f.read(CHUNK) at position p
f_read(data, p) ==
    SubSeq(data, p + 1, IF p + CHUNK <= Len(data) THEN p + CHUNK ELSE Len(data))

\* ------------------------------------------------------------- the run
\* The state when main() starts, for a given set of argument strings.  Files
\* can only be present under an output directory that exists.
InitWith(args) ==
    /\ pc = "extract"
    /\ arg \in args
    /\ fid = <<>>
    /\ outdir \in {"absent", "dir", "file"}
    /\ meta = NoMeta
    /\ filename = ""
    /\ expected = <<>>
    /\ size = 0
    /\ fs \in [Filenames -> {NoFile, [exists |-> TRUE, data |-> OldData]}]
    /\ (outdir # "dir" => \A f \in Filenames : fs[f] = NoFile)
    /\ r_open = FALSE
    /\ fh_open = FALSE
    /\ rd_open = FALSE
    /\ received = <<>>
    /\ nchunks = 0
    /\ bar = 0
    /\ h = 0
    /\ pos = 0
    /\ actual = <<>>
    /\ exitCode = Running
    /\ failure = "none"
    /\ metaGets = 0
    /\ requested = FALSE
    /\ opened = FALSE
    /\ unlinked = FALSE
    /\ created = FALSE

Init == InitWith(MainArgs)

\* An uncaught exception (or sys.exit with a message) ends the process.
Abort(kind) ==
    /\ pc' = "exit"
    /\ exitCode' = sys_exit(TRUE)
    /\ failure' = kind

\* line 57: fid = extract_file_id(args.fid)
ExtractFileId ==
    /\ pc = "extract"
    /\ fid' = extract_file_id(arg)
    /\ pc' = "mkdir"
    /\ UNCHANGED <<arg, outdir, meta, filename, expected, size, fs, r_open,
                   fh_open, rd_open, received, nchunks, bar, h, pos, actual,
                   exitCode, failure, metaGets, requested, opened, unlinked,
                   created>>

\* mkdir left out
MkdirOk_nocreate ==
    /\ pc = "mkdir"
    /\ outdir \in {"absent", "dir"}
    /\ pc' = "get_metadata"
    /\ UNCHANGED <<arg, fid, outdir, meta, filename, expected, size, fs,
                   r_open, fh_open, rd_open, received, nchunks, bar, h, pos,
                   actual, exitCode, failure, metaGets, requested, opened,
                   unlinked, created>>

\* line 60: outdir.mkdir(parents=True, exist_ok=True) returns
MkdirOk ==
    /\ pc = "mkdir"
    /\ outdir \in {"absent", "dir"}
    /\ outdir' = "dir"
    /\ created' = (outdir = "absent")
    /\ pc' = "get_metadata"
    /\ UNCHANGED <<arg, fid, meta, filename, expected, size, fs, r_open,
                   fh_open, rd_open, received, nchunks, bar, h, pos, actual,
                   exitCode, failure, metaGets, requested, opened, unlinked>>

\* line 60: mkdir raises: the path is a file (FileExistsError), or the
\* directory is absent and cannot be created (OSError)
MkdirFails ==
    /\ pc = "mkdir"
    /\ outdir \in {"absent", "file"}
    /\ Abort("mkdir")
    /\ UNCHANGED <<arg, fid, outdir, meta, filename, expected, size, fs,
                   r_open, fh_open, rd_open, received, nchunks, bar, h, pos,
                   actual, metaGets, requested, opened, unlinked,
                   created>>

\* lines 22-26: the GET fails (connection, timeout), raise_for_status raises
\* on a non-success status, or r.json() raises on a malformed body
GetMetadataFails ==
    /\ pc = "get_metadata"
    /\ metaGets' = metaGets + 1
    /\ \E kind \in {"meta_conn", "meta_http", "meta_json"} : Abort(kind)
    /\ UNCHANGED <<arg, fid, outdir, meta, filename, expected, size, fs,
                   r_open, fh_open, rd_open, received, nchunks, bar, h, pos,
                   actual, requested, opened, unlinked,
                   created>>

\* lines 22-26, 62: meta = get_metadata(fid) returns the parsed body
GetMetadataOk ==
    /\ pc = "get_metadata"
    /\ metaGets' = metaGets + 1
    /\ \E m \in MetaBodies : meta' = m
    /\ pc' = "read_meta"
    /\ UNCHANGED <<arg, fid, outdir, filename, expected, size, fs, r_open,
                   fh_open, rd_open, received, nchunks, bar, h, pos, actual,
                   exitCode, failure, requested, opened, unlinked,
                   created>>

\* lines 64-70: the subscripts run in order path, digest, size, href; the
\* first missing key raises KeyError and the later names stay unassigned
ReadMeta ==
    /\ pc = "read_meta"
    /\ LET hasP == "path" \in DOMAIN meta
           hasD == hasP /\ "digest" \in DOMAIN meta
           hasS == hasD /\ "size" \in DOMAIN meta
       IN  /\ filename' = IF hasP THEN Field(meta, "path").str ELSE filename
           /\ expected' = IF hasD THEN Field(meta, "digest").hex ELSE expected
           /\ size' = IF hasS THEN Field(meta, "size").num ELSE size
    /\ IF KeyError(meta)
       THEN Abort("meta_key")
       ELSE pc' = "download" /\ UNCHANGED <<exitCode, failure>>
    /\ UNCHANGED <<arg, fid, outdir, meta, fs, r_open, fh_open, rd_open,
                   received, nchunks, bar, h, pos, actual, metaGets,
                   requested, opened, unlinked,
                   created>>

\* the destination opened before the status is checked
DownloadRequestFails_truncates ==
    /\ pc = "download"
    /\ requested' = TRUE
    /\ r_open' = FALSE
    /\ fs' = open_wb(fs, filename)
    /\ \E kind \in {"dl_conn", "dl_http"} : Abort(kind)
    /\ UNCHANGED <<arg, fid, outdir, meta, filename, expected, size,
                   fh_open, rd_open, received, nchunks, bar, h, pos, actual,
                   metaGets, opened, unlinked, created>>

\* lines 36-37: requests.get raises (connection, timeout), or the response
\* has a non-success status and raise_for_status raises; the with block
\* closes the response
DownloadRequestFails ==
    /\ pc = "download"
    /\ requested' = TRUE
    /\ r_open' = FALSE
    /\ \E kind \in {"dl_conn", "dl_http"} : Abort(kind)
    /\ UNCHANGED <<arg, fid, outdir, meta, filename, expected, size, fs,
                   fh_open, rd_open, received, nchunks, bar, h, pos, actual,
                   metaGets, opened, unlinked,
                   created>>

\* lines 36-37: the response arrives with a success status
DownloadRequestOk ==
    /\ pc = "download"
    /\ requested' = TRUE
    /\ r_open' = TRUE
    /\ pc' = "open"
    /\ UNCHANGED <<arg, fid, outdir, meta, filename, expected, size, fs,
                   fh_open, rd_open, received, nchunks, bar, h, pos, actual,
                   exitCode, failure, metaGets, opened, unlinked,
                   created>>

\* line 38: dest.open('wb') creates or truncates the target; tqdm starts at 0
OpenDest ==
    /\ pc = "open"
    /\ opened' = TRUE
    /\ fs' = open_wb(fs, filename)
    /\ fh_open' = TRUE
    /\ bar' = 0
    /\ pc' = "stream"
    /\ UNCHANGED <<arg, fid, outdir, meta, filename, expected, size, r_open,
                   rd_open, received, nchunks, h, pos, actual, exitCode,
                   failure, metaGets, requested, unlinked,
                   created>>

\* line 38: dest.open('wb') raises OSError; the with block closes the response
OpenDestFails ==
    /\ pc = "open"
    /\ opened' = TRUE
    /\ r_open' = FALSE
    /\ Abort("open")
    /\ UNCHANGED <<arg, fid, outdir, meta, filename, expected, size, fs,
                   fh_open, rd_open, received, nchunks, bar, h, pos, actual,
                   metaGets, requested, unlinked,
                   created>>

\* lines 43-46: iter_content yields a chunk; a non-empty chunk is written
\* and the bar advances by its length
IterChunk ==
    /\ pc = "stream"
    /\ nchunks < MaxChunks
    /\ \E chunk \in Chunks :
         /\ received' = received \o chunk
         /\ IF chunk # <<>>
            THEN /\ fs' = [fs EXCEPT ![filename].data = fh_write(@, chunk)]
                 /\ bar' = bar + Len(chunk)
            ELSE UNCHANGED <<fs, bar>>
    /\ nchunks' = nchunks + 1
    /\ UNCHANGED <<pc, arg, fid, outdir, meta, filename, expected, size,
                   r_open, fh_open, rd_open, h, pos, actual, exitCode,
                   failure, metaGets, requested, opened, unlinked,
                   created>>

\* the file opened without a with block: an exception leaves it open
IterFails_leak ==
    /\ pc = "stream"
    /\ r_open' = FALSE
    /\ Abort("stream")
    /\ UNCHANGED <<arg, fid, outdir, meta, filename, expected, size, fs,
                   fh_open, rd_open, received, nchunks, bar, h, pos, actual,
                   metaGets, requested, opened, unlinked, created>>

\* line 43: iter_content raises (connection lost, read timeout); both with
\* blocks close their resources as the exception leaves download()
IterFails ==
    /\ pc = "stream"
    /\ fh_open' = FALSE
    /\ r_open' = FALSE
    /\ Abort("stream")
    /\ UNCHANGED <<arg, fid, outdir, meta, filename, expected, size, fs,
                   rd_open, received, nchunks, bar, h, pos, actual, metaGets,
                   requested, opened, unlinked,
                   created>>

\* line 45: fh.write raises OSError after writing only part of the chunk
WriteFails ==
    /\ pc = "stream"
    /\ nchunks < MaxChunks
    /\ \E chunk \in Chunks \ {<<>>} : \E k \in 0..(Len(chunk) - 1) :
         /\ received' = received \o chunk
         /\ fs' = [fs EXCEPT ![filename].data = fh_write(@, SubSeq(chunk, 1, k))]
    /\ nchunks' = nchunks + 1
    /\ fh_open' = FALSE
    /\ r_open' = FALSE
    /\ Abort("write")
    /\ UNCHANGED <<arg, fid, outdir, meta, filename, expected, size, rd_open,
                   bar, h, pos, actual, metaGets, requested, opened, unlinked,
                   created>>

\* lines 36-46: the stream ends, the with blocks close fh and r, and
\* download() returns
IterEnd ==
    /\ pc = "stream"
    /\ fh_open' = FALSE
    /\ r_open' = FALSE
    /\ pc' = "sha256sum"
    /\ UNCHANGED <<arg, fid, outdir, meta, filename, expected, size, fs,
                   rd_open, received, nchunks, bar, h, pos, actual, exitCode,
                   failure, metaGets, requested, opened, unlinked,
                   created>>

\* lines 29-30: h = hashlib.sha256(); path.open("rb")
Sha256Open ==
    /\ pc = "sha256sum"
    /\ h' = sha256_new
    /\ pos' = 0
    /\ rd_open' = TRUE
    /\ pc' = "hashing"
    /\ UNCHANGED <<arg, fid, outdir, meta, filename, expected, size, fs,
                   r_open, fh_open, received, nchunks, bar, actual, exitCode,
                   failure, metaGets, requested, opened, unlinked,
                   created>>

\* lines 31-33: one f.read(CHUNK); b"" ends the loop, closes f and returns
\* h.hexdigest()
Sha256Read ==
    /\ pc = "hashing"
    /\ LET chunk == f_read(fs[filename].data, pos)
       IN  IF chunk = <<>>
           THEN /\ actual' = hexdigest(h)
                /\ rd_open' = FALSE
                /\ pc' = "compare"
                /\ UNCHANGED <<h, pos>>
           ELSE /\ h' = sha256_update(h, chunk)
                /\ pos' = pos + Len(chunk)
                /\ UNCHANGED <<actual, rd_open, pc>>
    /\ UNCHANGED <<arg, fid, outdir, meta, filename, expected, size, fs,
                   r_open, fh_open, received, nchunks, bar, exitCode, failure,
                   metaGets, requested, opened, unlinked,
                   created>>

\* lines 75-77: the digests differ: unlink the target and sys.exit(message)
ChecksumMismatch ==
    /\ pc = "compare"
    /\ digests_differ(actual, expected)
    /\ fs' = unlink(fs, filename)
    /\ unlinked' = TRUE
    /\ Abort("mismatch")
    /\ UNCHANGED <<arg, fid, outdir, meta, filename, expected, size, r_open,
                   fh_open, rd_open, received, nchunks, bar, h, pos, actual,
                   metaGets, requested, opened,
                   created>>

\* lines 75, 78: the digests agree: main() returns and the process exits 0
ChecksumOk ==
    /\ pc = "compare"
    /\ ~digests_differ(actual, expected)
    /\ pc' = "exit"
    /\ exitCode' = sys_exit(FALSE)
    /\ UNCHANGED <<arg, fid, outdir, meta, filename, expected, size, fs,
                   r_open, fh_open, rd_open, received, nchunks, bar, h, pos,
                   actual, failure, metaGets, requested, opened, unlinked,
                   created>>

Next ==
    \/ ExtractFileId
    \/ MkdirOk
    \/ MkdirFails
    \/ GetMetadataFails
    \/ GetMetadataOk
    \/ ReadMeta
    \/ DownloadRequestFails
    \/ DownloadRequestOk
    \/ OpenDest
    \/ OpenDestFails
    \/ IterChunk
    \/ IterFails
    \/ WriteFails
    \/ IterEnd
    \/ Sha256Open
    \/ Sha256Read
    \/ ChecksumMismatch
    \/ ChecksumOk

Spec == Init /\ [][Next]_vars

\* Every statement of main() either returns, raises or times out (section
\* 5: each network call blocks until it completes or times out), so a run
\* that can take a step takes one.
FairSpec == Init /\ [][Next]_vars /\ WF_vars(Next)

\* extract_file_id alone, over all bounded argument strings
InitId == InitWith(ArgStrings)
NextId == ExtractFileId
SpecId == InitId /\ [][NextId]_vars

TypeOK ==
    /\ pc \in {"extract", "mkdir", "get_metadata", "read_meta", "download",
               "open", "stream", "sha256sum", "hashing", "compare", "exit"}
    /\ exitCode \in {Running, 0, 1}
    /\ outdir \in {"absent", "dir", "file"}
    /\ filename \in Filenames \cup {""}
    /\ nchunks \in 0..MaxChunks
    /\ bar \in 0..Len(received)

\* ------------------------------------------------------------ properties
UpperOf == [c \in {"a", "b", "c", "d", "e", "f"} |->
              CASE c = "a" -> "A" [] c = "b" -> "B" [] c = "c" -> "C"
                [] c = "d" -> "D" [] c = "e" -> "E" [] OTHER -> "F"]

\* x and y are the same character up to letter case
SameCharIgnoringCase(x, y) ==
    \/ x = y
    \/ x \in DOMAIN UpperOf /\ y = UpperOf[x]
    \/ y \in DOMAIN UpperOf /\ x = UpperOf[y]

\* two strings that differ at most in letter case
SameIgnoringCase(a, b) ==
    /\ Len(a) = Len(b)
    /\ \A i \in 1..Len(a) : SameCharIgnoringCase(a[i], b[i])

\* the run ended after download() returned and the digests were compared
Compared == pc = "exit" /\ failure \in {"none", "mismatch"}

Exited == pc = "exit" /\ exitCode # Running

\* C1: when the download completed and the computed digest is not the
\* expected one, the run ends with the target file absent, a deletion
\* performed and a non-zero exit status.
C1_MismatchRemovesFile ==
    (Compared /\ ~SameIgnoringCase(actual, expected)) =>
        /\ fs[filename] = NoFile
        /\ unlinked
        /\ Exited /\ exitCode # 0

C1_Witness ==
    /\ Compared /\ ~SameIgnoringCase(actual, expected)
    /\ received # <<>>
    /\ unlinked

\* C2: when the download completed and the computed digest is the expected
\* one, the run ends with status 0, the target file holds exactly the bytes
\* received and no deletion was performed.
C2_MatchKeepsFile ==
    (Compared /\ SameIgnoringCase(actual, expected)) =>
        /\ fs[filename] = [exists |-> TRUE, data |-> received]
        /\ ~unlinked
        /\ exitCode = 0

C2_Witness ==
    /\ Compared /\ SameIgnoringCase(actual, expected)
    /\ Len(received) > CHUNK
    /\ exitCode = 0

\* the run fetched the metadata, downloaded the body and found the digests equal
FullSuccess ==
    /\ metaGets = 1 /\ MetaKeys \subseteq DOMAIN meta
    /\ requested /\ opened /\ ~fh_open
    /\ failure = "none"
    /\ fs[filename].exists
    /\ actual = hexdigest(sha256_update(sha256_new, fs[filename].data))
    /\ SameIgnoringCase(actual, expected)

C4_MetadataBeforeDownload ==
    /\ requested =>
        /\ metaGets = 1
        /\ MetaKeys \subseteq DOMAIN meta
        /\ filename = meta["path"].str
        /\ expected = meta["digest"].hex
        /\ size = meta["size"].num
    /\ opened => requested
    /\ (\/ failure \in {"meta_conn", "meta_http", "meta_json"}
        \/ (pc \notin {"extract", "mkdir", "get_metadata", "read_meta"}
              /\ failure # "mkdir" /\ ~(MetaKeys \subseteq DOMAIN meta))) =>
        /\ Exited /\ exitCode # 0
        /\ ~requested /\ ~opened

C4_Witness ==
    /\ Exited /\ metaGets = 1
    /\ "path" \in DOMAIN meta /\ "digest" \notin DOMAIN meta
    /\ ~requested

\* the string s contains the string t at position i
OccursAt(s, t, i) == i + Len(t) - 1 <= Len(s) /\ SubSeq(s, i, i + Len(t) - 1) = t

Contains(s, t) == \E i \in 1..Len(s) : OccursAt(s, t, i)

\* /files/ followed by a digit stands at position i of s
PatternAt(s, i) ==
    /\ OccursAt(s, FilesPrefix, i)
    /\ i + Len(FilesPrefix) <= Len(s)
    /\ s[i + Len(FilesPrefix)] \in Digits

\* C5 as stated: any argument containing /files/12345 gives "12345".
C5_AnyOccurrence ==
    (pc = "mkdir" /\ Contains(arg, FilesPrefix \o Tok12345)) => fid = Tok12345

\* the first /files/<digits> of s is /files/12345 and no digit follows it
First12345(s) ==
    \E i \in 1..Len(s) :
        /\ OccursAt(s, FilesPrefix \o Tok12345, i)
        /\ \A j \in 1..(i - 1) : ~PatternAt(s, j)
        /\ LET e == i + Len(FilesPrefix) + Len(Tok12345)
           IN  e > Len(s) \/ s[e] \notin Digits

\* C5 (amended): when the first /files/<digits> occurrence of the argument
\* is /files/12345 and no further digit follows it, the result is "12345".
C5_FirstOccurrence ==
    (pc = "mkdir" /\ First12345(arg)) => fid = Tok12345

C5_Witness ==
    /\ pc = "mkdir" /\ First12345(arg) /\ fid = Tok12345
    /\ \E i \in 2..Len(arg) : PatternAt(arg, i)
    /\ arg[1] # "/"

\* t is s with its leading and trailing whitespace removed
IsTrimOf(t, s) ==
    \E i \in 0..Len(s) : \E j \in i..Len(s) :
        /\ t = SubSeq(s, i + 1, j)
        /\ \A k \in 1..i : s[k] \in Whitespace
        /\ \A k \in (j + 1)..Len(s) : s[k] \in Whitespace
        /\ t # <<>> => (t[1] \notin Whitespace /\ t[Len(t)] \notin Whitespace)

\* C6: with no /files/<digits> in the argument, extraction always completes
\* and the result is the argument without its leading and trailing
\* whitespace, numeric or not.
C6_BareIdTrimmed ==
    /\ pc = "extract" => ENABLED ExtractFileId
    /\ (pc = "mkdir" /\ ~(\E i \in 1..Len(arg) : PatternAt(arg, i))) =>
          IsTrimOf(fid, arg)

C6_Witness ==
    /\ pc = "mkdir" /\ ~(\E i \in 1..Len(arg) : PatternAt(arg, i))
    /\ Len(fid) + 2 <= Len(arg)
    /\ arg[1] \in Whitespace /\ arg[Len(arg)] \in Whitespace
    /\ \E k \in 1..Len(fid) : fid[k] \notin Digits

\* C7: after the comparison the run is on the match path (file kept, status
\* 0) exactly when the two digests differ at most in letter case, and on the
\* mismatch path exactly when they differ otherwise.
C7_CaseInsensitiveCompare ==
    Compared =>
        /\ SameIgnoringCase(actual, expected) <=>
              (exitCode = 0 /\ fs[filename].exists /\ failure = "none")
        /\ ~SameIgnoringCase(actual, expected) <=>
              (exitCode # 0 /\ failure = "mismatch")

C7_Witness ==
    /\ Compared /\ exitCode = 0 /\ fs[filename].exists
    /\ actual # expected
    /\ SameIgnoringCase(actual, expected)

\* C8: the write handle is open only while download() is streaming: it is
\* closed in every terminal state and whenever the verifier runs.
C8_HandleClosed ==
    /\ pc \in {"exit", "sha256sum", "hashing", "compare"} => ~fh_open
    /\ rd_open => ~fh_open

C8_Witness ==
    /\ pc = "exit" /\ failure \in {"stream", "write"}
    /\ opened /\ received # <<>>
    /\ ~fh_open

\* C9: the output directory exists from the first network request onward,
\* is created before the destination file is opened, and mkdir goes on to
\* the metadata fetch when the directory already exists.
C9_DirectoryFirst ==
    /\ []((metaGets > 0 \/ requested \/ opened \/ pc = "get_metadata") =>
            outdir = "dir")
    /\ [][(pc = "mkdir" /\ outdir = "dir") => pc' = "get_metadata"]_vars

C9_Witness == created /\ opened /\ outdir = "dir" /\ fs[filename].exists

\* the file system before any file was written: nothing, or the old files
Untouched(f) == f \in {NoFile, [exists |-> TRUE, data |-> OldData]}

\* C10: a failed download ends the run non-zero with no verification and no
\* deletion; a failed request leaves the file system as it was and the
\* destination unopened; a failure in mid-stream leaves the file holding the
\* bytes received so far; a stream that ends leaves exactly the bytes
\* received, whatever the declared size.
C10_DownloadFailure ==
    /\ [](failure \in {"dl_conn", "dl_http", "stream"} =>
            /\ Exited /\ exitCode # 0
            /\ ~unlinked /\ ~rd_open /\ actual = <<>> /\ h = 0)
    /\ [](failure \in {"dl_conn", "dl_http"} =>
            (~opened /\ \A f \in Filenames : Untouched(fs[f])))
    /\ [][pc = "download" => fs' = fs]_vars
    /\ [](failure = "stream" =>
            fs[filename] = [exists |-> TRUE, data |-> received])
    /\ [](pc \in {"sha256sum", "hashing", "compare"} =>
            fs[filename] = [exists |-> TRUE, data |-> received])

C10_Witness ==
    /\ failure = "stream" /\ Exited
    /\ received # <<>> /\ Len(received) # size
    /\ fs[filename].data = received

====
